---- MODULE Spec2Model ----
(***************************************************************************)
(* Archyards crawler: the crawl -> rank -> rewrite -> publish pipeline of  *)
(* scheduler.py, the selection of fetcher.py (crawl_all), the rewrite loop *)
(* of rewriter.py and the merge into the published store.                  *)
(*                                                                         *)
(* Three specifications share the module:                                  *)
(*   SpecMerge   merge_with_published as a pure function of the store and  *)
(*               the batch, applied once and then again to its own result  *)
(*   SpecSelect  the de-duplication, sort and per-source cap of crawl_all  *)
(*   Spec        run_pipeline, step by step, run after run                 *)
(***************************************************************************)
EXTENDS Integers, Sequences, FiniteSets, TLC

VARIABLES
    \* ---- SpecMerge: merge_with_published(new_articles) on a store -------
    existing,        \* content of published_articles.json before the call
    new_articles,    \* the argument of merge_with_published
    merged,          \* the value returned by the first call
    merged2,         \* the value returned by merging the same batch again
    mphase,          \* "input" | "merged" | "remerged"
    \* ---- SpecSelect: the selection of crawl_all --------------------------
    all_articles,    \* the crawled candidates, in crawl order
    top_n,           \* the argument of crawl_all
    selected,        \* the list crawl_all returns
    sphase,          \* "input" | "selected"
    \* ---- Spec: run_pipeline ---------------------------------------------
    pc,              \* the step run_pipeline is at
    api_key,         \* CONFIG["api_key"] is set
    published,       \* content of storage/published_articles.json
    pub_exists,      \* the published file exists
    pub_complete,    \* the published file holds a whole JSON document
    api_read,        \* api.py: what the last load_published came to
    archive,         \* today's file of storage/archive
    now,             \* the clock, one tick per run
    store_at_start,  \* the published store when the run started
    src_idx,         \* crawl_all: the source crawled next
    crawled,         \* crawl_all: all_articles gathered so far
    articles,        \* run_pipeline: the list crawl_all returned
    raw_file,        \* content of storage/raw_articles.json
    rw_idx,          \* rewrite_batch: the article rewritten next
    rewritten,       \* rewrite_batch: results; then run_pipeline: rewritten
    to_publish,      \* run_pipeline: to_publish
    new_store,       \* run_pipeline: merged
    aborted_at,      \* the step whose exception ended the run, or "none"
    failed_ids,      \* ids whose rewrite call failed in this run (history)
    crawl_log        \* crawl_all: how crawl_source ended, per source (history,
                     \* kept until the selection is saved)

mergeVars  == <<existing, new_articles, merged, merged2, mphase>>
selectVars == <<all_articles, top_n, selected, sphase>>
fileVars   == <<published, pub_exists, pub_complete, archive, raw_file>>
runVars    == <<pc, api_key, now, store_at_start, src_idx, crawled, articles,
                rw_idx, rewritten, to_publish, new_store, aborted_at,
                failed_ids, crawl_log>>
pipeVars   == <<fileVars, runVars, api_read>>
vars == <<mergeVars, selectVars, pipeVars>>

----------------------------------------------------------------------------
(* Program constants *)

\* scheduler.py: merged = merged[:150]
RetentionCap == 150

\* fetcher.py: if count < 2  (at most two articles of one source)
PerSourceCap == 2

\* scheduler.py: CONFIG["articles_per_day"]
ArticlesPerDay == 5

----------------------------------------------------------------------------
(* Bounds of the model *)

\* longest batch handed to merge_with_published in SpecMerge
MaxBatch == 3

\* most feed entries the first source yields in SpecSelect
MaxEntries == 3

\* largest top_n handed to the selection in SpecSelect
MaxTopN == 3

\* pipeline runs in one behaviour of Spec
MaxRuns == 2

----------------------------------------------------------------------------
(* Helpers *)

Min(a, b) == IF a <= b THEN a ELSE b

Range(s) == {s[i] : i \in DOMAIN s}

IdsOf(s) == {s[i].id : i \in DOMAIN s}

Distinct(s) == \A i, j \in DOMAIN s : i # j => s[i].id # s[j].id

\* all sequences over S of length 0..n
SeqsUpTo(S, n) == UNION {[1..k -> S] : k \in 0..n}

----------------------------------------------------------------------------
(* scheduler.py: merge_with_published *)

\* merged[:150]
\* (faulty variant: the slice is left out)
TruncateNever(s) == s
Truncate(s) == SubSeq(s, 1, Min(Len(s), RetentionCap))

\* truly_new = [a for a in new_articles if a["id"] not in existing_ids]
\* (faulty variant: nothing is filtered out)
TrulyNewUnfiltered(store, batch) == batch
TrulyNew(store, batch) ==
    LET existing_ids == {store[i].id : i \in DOMAIN store}
    IN  SelectSeq(batch, LAMBDA a : a.id \notin existing_ids)

\* merged = truly_new + existing
\* (faulty variant: the new records are appended)
ConcatAppended(truly_new, store) == store \o truly_new
Concat(truly_new, store) == truly_new \o store

merge_with_published(store, batch) ==
    Truncate(Concat(TrulyNew(store, batch), store))

----------------------------------------------------------------------------
(* SpecMerge: inputs of merge_with_published *)

\* A record as mark_as_published leaves it.
Published(id, ts) ==
    [id |-> id, published_at_archyards |-> ts, badge |-> "aggregated",
     status |-> "published"]

\* A store of n records that earlier runs published (time 0), newest first:
\* ids n, n-1, .., 1, so that id 1 is the oldest record, at the tail.
Prefill(n) == [i \in 1..n |-> Published(n + 1 - i, 0)]

StoreLens == {0, 2, RetentionCap - 1, RetentionCap}

\* ids of the batch: the two oldest ids of a prefilled store and two ids no
\* prefilled store holds
BatchIds == {1, 2, RetentionCap + 1, RetentionCap + 2}

\* a batch longer than the retention cap, all ids new
BigBatch == [i \in 1..(RetentionCap + 1) |-> Published(1000 + i, 1)]

Batches ==
    {[i \in DOMAIN ids |-> Published(ids[i], 1)] : ids \in SeqsUpTo(BatchIds, MaxBatch)}
    \cup {BigBatch}

\* no request of the query service is being answered
NoRead == [status |-> "none", content |-> <<>>]

InitPipeIdle ==
    /\ pc = "off"
    /\ api_key = FALSE
    /\ published = <<>>
    /\ pub_exists = FALSE
    /\ pub_complete = TRUE
    /\ api_read = NoRead
    /\ archive = [exists |-> FALSE, content |-> <<>>]
    /\ now = 0
    /\ store_at_start = <<>>
    /\ src_idx = 1
    /\ crawled = <<>>
    /\ articles = <<>>
    /\ raw_file = <<>>
    /\ rw_idx = 1
    /\ rewritten = <<>>
    /\ to_publish = <<>>
    /\ new_store = <<>>
    /\ aborted_at = "none"
    /\ failed_ids = {}
    /\ crawl_log = <<>>

InitSelectIdle ==
    /\ all_articles = <<>>
    /\ top_n = 0
    /\ selected = <<>>
    /\ sphase = "off"

InitMerge ==
    /\ existing \in {Prefill(n) : n \in StoreLens}
    /\ new_articles \in Batches
    /\ merged = <<>>
    /\ merged2 = <<>>
    /\ mphase = "input"
    /\ InitSelectIdle
    /\ InitPipeIdle

\* merged = merge_with_published(to_publish)
Merge ==
    /\ mphase = "input"
    /\ merged' = merge_with_published(existing, new_articles)
    /\ mphase' = "merged"
    /\ UNCHANGED <<existing, new_articles, merged2, selectVars, pipeVars>>

\* the same batch merged into the store the first merge returned
MergeAgain ==
    /\ mphase = "merged"
    /\ merged2' = merge_with_published(merged, new_articles)
    /\ mphase' = "remerged"
    /\ UNCHANGED <<existing, new_articles, merged, selectVars, pipeVars>>

NextMerge == Merge \/ MergeAgain

SpecMerge == InitMerge /\ [][NextMerge]_vars

----------------------------------------------------------------------------
(* Properties of merge_with_published (SpecMerge) *)

\* C1: after every call of merge_with_published, whatever the store and
\* the batch, the returned store holds at most RetentionCap (150) records.
C1_RetentionCap ==
    /\ mphase \in {"merged", "remerged"} => Len(merged) <= RetentionCap
    /\ mphase = "remerged" => Len(merged2) <= RetentionCap

\* a merge of new ids into a full store: the cap had to drop records
C1_Witness ==
    /\ mphase = "merged"
    /\ Len(existing) = RetentionCap
    /\ \E i \in DOMAIN new_articles : new_articles[i].id \notin IdsOf(existing)
    /\ Len(merged) = RetentionCap

\* C2 (as claimed): for every store with pairwise distinct ids and every
\* batch, with no assumption on the batch, the returned store has pairwise
\* distinct ids.
C2_UniqueIdsAnyBatch ==
    (mphase \in {"merged", "remerged"} /\ Distinct(existing)) => Distinct(merged)

\* C2 (amended): for every store with pairwise distinct ids and every batch
\* whose own ids are pairwise distinct, the returned store has pairwise
\* distinct ids, and so has the store a second merge of the batch returns.
C2_UniqueIds ==
    (mphase \in {"merged", "remerged"} /\ Distinct(existing) /\ Distinct(new_articles))
        => /\ Distinct(merged)
           /\ mphase = "remerged" => Distinct(merged2)

\* a batch of distinct ids, one already stored and one new, has been merged
C2_Witness ==
    /\ mphase = "merged"
    /\ Distinct(existing) /\ Distinct(new_articles)
    /\ \E i, j \in DOMAIN new_articles :
          /\ new_articles[i].id \in IdsOf(existing)
          /\ new_articles[j].id \notin IdsOf(existing)
    /\ Distinct(merged)

SameIds(s, t) ==
    /\ Len(s) = Len(t)
    /\ \A i \in DOMAIN s : s[i].id = t[i].id

\* C3 (as claimed): for every store and every batch, merging the batch again
\* into the result of the first merge changes nothing: same length, same ids
\* in the same positions.
C3_IdempotentAlways ==
    mphase = "remerged" => SameIds(merged2, merged)

\* C3 (amended): merging the batch again into the result of the first merge
\* changes nothing provided the result of the first merge holds every id of
\* the batch, that is, provided the cap dropped no record whose id is in the
\* batch.
C3_Idempotent ==
    (mphase = "remerged" /\ IdsOf(new_articles) \subseteq IdsOf(merged))
        => SameIds(merged2, merged)

\* the first merge added a new id and cut the store to the cap, and the
\* second merge of the same batch found every id present
C3_Witness ==
    /\ mphase = "remerged"
    /\ \E i \in DOMAIN new_articles : new_articles[i].id \notin IdsOf(existing)
    /\ Len(existing) = RetentionCap
    /\ IdsOf(new_articles) \subseteq IdsOf(merged)
    /\ SameIds(merged2, merged)

\* positions of the batch whose id the store does not hold
Surviving(store, batch) ==
    LET ids == IdsOf(store)
    IN  {i \in DOMAIN batch : batch[i].id \notin ids}

\* C7: the returned store is the batch records whose id the store does not
\* hold, in batch order, followed by the stored records in their order, cut
\* to the first RetentionCap: position by position, with nothing re-sorted
\* and only the tail dropped.
C7_PrependThenTruncate ==
    mphase \in {"merged", "remerged"} =>
        LET surv == Surviving(existing, new_articles)
            k    == Cardinality(surv)
        IN  /\ Len(merged) = Min(RetentionCap, k + Len(existing))
            /\ \A i \in surv :
                  \* the record at batch position i is the p-th surviving one
                  LET p == Cardinality({j \in surv : j <= i})
                  IN  p <= Len(merged) => merged[p] = new_articles[i]
            /\ \A p \in (k + 1)..Len(merged) : merged[p] = existing[p - k]

\* a batch with a stored id and a new id met a full store: one record was
\* filtered out, one prepended, and the oldest stored record dropped
C7_Witness ==
    /\ mphase = "merged"
    /\ Len(existing) = RetentionCap
    /\ Cardinality(Surviving(existing, new_articles)) \in 1..(Len(new_articles) - 1)
    /\ merged[Len(merged)] = existing[Len(existing) - Cardinality(Surviving(existing, new_articles))]

----------------------------------------------------------------------------
(* fetcher.py: Article, and the selection of crawl_all *)

\* the first sources of SOURCES, in crawl order
Sources == <<"Dezeen", "ArchDaily", "Designboom">>

\* Article(...) as crawl_source builds it; status defaults to "pending"
Article(id, source_name, popularity_score) ==
    [id |-> id, source_name |-> source_name,
     popularity_score |-> popularity_score, status |-> "pending"]

\* Deduplicate by ID: the loop over all_articles with the set `seen`
RECURSIVE DedupeFrom(_, _, _, _)
DedupeFrom(all, i, seen, unique) ==
    IF i > Len(all) THEN unique
    ELSE IF all[i].id \notin seen
         THEN DedupeFrom(all, i + 1, seen \cup {all[i].id}, Append(unique, all[i]))
         ELSE DedupeFrom(all, i + 1, seen, unique)

Dedupe(all) == DedupeFrom(all, 1, {}, <<>>)

\* where a stable descending sort puts `a` among the sorted `s`: behind
\* every element whose score is at least its own
\* (faulty variant: ahead of the elements of equal score, an unstable sort)
InsertPosUnstable(s, a) ==
    Cardinality({k \in DOMAIN s : s[k].popularity_score > a.popularity_score})
InsertPos(s, a) ==
    Cardinality({k \in DOMAIN s : s[k].popularity_score >= a.popularity_score})

InsertSorted(s, a) ==
    LET k == InsertPos(s, a)
    IN  SubSeq(s, 1, k) \o <<a>> \o SubSeq(s, k + 1, Len(s))

\* unique.sort(key=lambda a: a.popularity_score, reverse=True): a stable
\* sort, so elements of equal score keep their order
RECURSIVE SortFrom(_, _, _)
SortFrom(unique, i, sorted) ==
    IF i > Len(unique) THEN sorted
    ELSE SortFrom(unique, i + 1, InsertSorted(sorted, unique[i]))

SortByScoreDesc(unique) == SortFrom(unique, 1, <<>>)

\* if count < 2
\* (faulty variant: count <= 2)
AdmitsUpToCap(count) == count <= PerSourceCap
Admits(count) == count < PerSourceCap

\* the loop "for art in unique" with selected and source_count
RECURSIVE PickFrom(_, _, _, _, _)
PickFrom(unique, i, n, sel, source_count) ==
    IF i > Len(unique) THEN sel
    ELSE IF Len(sel) >= n THEN sel
    ELSE LET art   == unique[i]
             count == source_count[art.source_name]
         IN  IF Admits(count)
             THEN PickFrom(unique, i + 1, n, Append(sel, art),
                           [source_count EXCEPT ![art.source_name] = count + 1])
             ELSE PickFrom(unique, i + 1, n, sel, source_count)

\* source_count.get(name, 0): every count starts at 0
NoCounts == [s \in Range(Sources) |-> 0]

\* crawl_all once all_articles is gathered: lines 320-346
SelectTop(all, n) == PickFrom(SortByScoreDesc(Dedupe(all)), 1, n, <<>>, NoCounts)

----------------------------------------------------------------------------
(* SpecSelect: inputs of the selection *)

Scores == {1, 2}

\* the entries the first source may yield: ids 1..3, possibly repeated,
\* each with its own score (the score carries a random jitter)
FirstSourceLists ==
    {[i \in DOMAIN e |-> Article(e[i][1], Sources[1], e[i][2])] :
        e \in SeqsUpTo((1..3) \X Scores, MaxEntries)}

\* the second source yields nothing, one entry, or the same link twice
\* (id 4 both times, each with its own score)
SecondSourceLists ==
    {[i \in DOMAIN e |-> Article(4, Sources[2], e[i])] : e \in SeqsUpTo(Scores, 2)}

InitMergeIdle ==
    /\ existing = <<>>
    /\ new_articles = <<>>
    /\ merged = <<>>
    /\ merged2 = <<>>
    /\ mphase = "off"

\* all_articles is the lists of the sources, one after the other
InitSelect ==
    /\ \E a \in FirstSourceLists, b \in SecondSourceLists : all_articles = a \o b
    /\ top_n \in 0..MaxTopN
    /\ selected = <<>>
    /\ sphase = "input"
    /\ InitMergeIdle
    /\ InitPipeIdle

Select ==
    /\ sphase = "input"
    /\ selected' = SelectTop(all_articles, top_n)
    /\ sphase' = "selected"
    /\ UNCHANGED <<all_articles, top_n, mergeVars, pipeVars>>

NextSelect == Select

SpecSelect == InitSelect /\ [][NextSelect]_vars

----------------------------------------------------------------------------
(* Properties of the selection (SpecSelect) *)

FromSource(s, name) == {i \in DOMAIN s : s[i].source_name = name}

\* C4: the selection holds only crawled candidates, at most top_n of them,
\* and at most PerSourceCap (2) of one source.
C4_SelectionBounds ==
    sphase = "selected" =>
        /\ Range(selected) \subseteq Range(all_articles)
        /\ Len(selected) <= top_n
        /\ \A name \in Range(Sources) :
              Cardinality(FromSource(selected, name)) <= PerSourceCap

\* three distinct articles of one source were crawled and two of them
\* selected, and the selection is full
C4_Witness ==
    /\ sphase = "selected"
    /\ Cardinality({all_articles[i].id : i \in FromSource(all_articles, Sources[1])}) = 3
    /\ Cardinality(FromSource(selected, Sources[1])) = PerSourceCap
    /\ top_n > 0
    /\ Len(selected) = top_n

\* positions of all_articles holding the first occurrence of an id
FirstOcc ==
    {i \in DOMAIN all_articles :
        \A j \in 1..(i - 1) : all_articles[j].id # all_articles[i].id}

\* candidate i is scanned before candidate j: higher score, or the same
\* score and crawled earlier
Before(i, j) ==
    \/ all_articles[i].popularity_score > all_articles[j].popularity_score
    \/ /\ all_articles[i].popularity_score = all_articles[j].popularity_score
       /\ i < j

\* C8: the selection is the first occurrences of the ids, scanned by
\* descending score (equal scores in crawl order), a candidate being
\* admitted iff fewer than 2 of its source and fewer than top_n in all were
\* admitted ahead of it; the output lists the admitted ones in scan order,
\* so in non-increasing score order.
C8_GreedySelection ==
    sphase = "selected" =>
        /\ \E adm \in SUBSET FirstOcc :
              /\ \A i \in FirstOcc :
                    i \in adm <=>
                        /\ Cardinality({j \in adm : Before(j, i)}) < top_n
                        /\ Cardinality({j \in adm : /\ Before(j, i)
                                                    /\ all_articles[j].source_name
                                                         = all_articles[i].source_name})
                              < PerSourceCap
              /\ Len(selected) = Cardinality(adm)
              /\ \A i \in adm :
                    selected[1 + Cardinality({j \in adm : Before(j, i)})] = all_articles[i]
        /\ \A p, q \in DOMAIN selected :
              p < q => selected[p].popularity_score >= selected[q].popularity_score

\* a repeated id was dropped, a third article of a source was passed over
\* and a lower-scored article of another source admitted behind it, with
\* two articles of equal score kept in crawl order
C8_Witness ==
    /\ sphase = "selected"
    /\ FirstOcc # DOMAIN all_articles
    /\ \E i \in FirstOcc :
          /\ all_articles[i] \notin Range(selected)
          /\ selected # <<>>
          /\ all_articles[i].popularity_score > selected[Len(selected)].popularity_score
    /\ \E p \in 1..(Len(selected) - 1) :
          selected[p].popularity_score = selected[p + 1].popularity_score

----------------------------------------------------------------------------
(* scheduler.py: run_pipeline, with rewriter.py: rewrite, rewrite_batch *)

\* mark_as_published, for one article stamped at time ts
mark_as_published(a, ts) ==
    [id |-> a.id, source_name |-> a.source_name,
     popularity_score |-> a.popularity_score,
     status |-> "published", published_at_archyards |-> ts,
     badge |-> "aggregated"]

\* the source an id belongs to (article_id hashes the source name and url)
SourceOf(id) == Sources[((id - 1) % Len(Sources)) + 1]

\* a store of n records published by earlier runs (time 0), newest first
PrefillStore(n) ==
    [i \in 1..n |-> mark_as_published(Article(n + 1 - i, SourceOf(n + 1 - i), 1), 0)]

\* what crawl_source may return for a source: nothing, or its feed.  The
\* feeds carry the two oldest ids of a prefilled store (1, 2) and four new
\* ids; the first feed has three articles, one more than a source may place.
Feed(k) ==
    CASE k = 1 -> <<Article(1, Sources[1], 1), Article(301, Sources[1], 3),
                    Article(304, Sources[1], 2)>>
      [] k = 2 -> <<Article(2, Sources[2], 3), Article(302, Sources[2], 2)>>
      [] OTHER -> <<Article(303, Sources[3], 2)>>

\* how one call of rewrite may end:
\*   object          the reply parses to a JSON object
\*   invalid_json    json.loads raises JSONDecodeError          (caught)
\*   api_error       the client raises APIError, timeouts too   (caught)
\*   non_object_json the reply parses to a list, string, number or null:
\*                   result.get raises AttributeError           (not caught)
\*   no_text_block   response.content is empty or holds no text: IndexError
\*                   or AttributeError at content[0].text       (not caught)
RewriteOutcomes ==
    {"object", "invalid_json", "api_error", "non_object_json", "no_text_block"}

\* the except clauses of rewrite: JSONDecodeError and APIError
Caught(outcome) == outcome \in {"invalid_json", "api_error"}

\* what the run is aborted with when rewrite lets the exception through
RewriteAbort(outcome) ==
    IF outcome = "non_object_json" THEN "rewrite_non_object_json"
                                   ELSE "rewrite_no_text_block"

RewriteAborts == {"rewrite_non_object_json", "rewrite_no_text_block"}

\* to_publish = [a for a in rewritten if a.get("status") in ("rewritten", "pending")]
\* (faulty variant: every status passes)
EligibleAny(status) == TRUE
Eligible(status) == status \in {"rewritten", "pending"}

InitHarnessIdle ==
    /\ InitMergeIdle
    /\ InitSelectIdle

Init ==
    /\ pc = "idle"
    /\ api_key \in BOOLEAN
    /\ \E n \in {0, RetentionCap - 1} :
          /\ published = PrefillStore(n)
          /\ pub_exists = (n > 0)
    /\ pub_complete = TRUE
    /\ api_read = NoRead
    /\ archive = [exists |-> FALSE, content |-> <<>>]
    /\ now = 0
    /\ store_at_start = <<>>
    /\ src_idx = 1
    /\ crawled = <<>>
    /\ articles = <<>>
    /\ raw_file = <<>>
    /\ rw_idx = 1
    /\ rewritten = <<>>
    /\ to_publish = <<>>
    /\ new_store = <<>>
    /\ aborted_at = "none"
    /\ failed_ids = {}
    /\ crawl_log = <<>>
    /\ InitHarnessIdle

harnessVars == <<mergeVars, selectVars>>

\* the scheduler (cron) starts run_pipeline, once the previous run is over
StartRun ==
    /\ pc \in {"idle", "done", "aborted"}
    /\ now < MaxRuns
    /\ now' = now + 1
    /\ pc' = "archive"
    /\ store_at_start' = published
    /\ src_idx' = 1
    /\ crawled' = <<>>
    /\ articles' = <<>>
    /\ rw_idx' = 1
    /\ rewritten' = <<>>
    /\ to_publish' = <<>>
    /\ new_store' = <<>>
    /\ aborted_at' = "none"
    /\ failed_ids' = {}
    /\ crawl_log' = <<>>
    /\ api_read' = NoRead
    /\ UNCHANGED <<api_key, fileVars, harnessVars>>

\* shutil.copy(pub, dest): the published file stays as it is
\* (faulty variant: the file is moved, as the docstring of archive_previous
\* has it, and the store is gone)
MovedByArchive(store) == <<>>
LeftByArchive(store) == store

\* archive_previous(): nothing without a published file, else a copy
ArchivePrevious ==
    /\ pc = "archive"
    /\ archive' = IF pub_exists
                  THEN [exists |-> TRUE, content |-> published]
                  ELSE archive
    /\ published' = IF pub_exists THEN LeftByArchive(published) ELSE published
    /\ pc' = "crawl"
    /\ UNCHANGED <<pub_exists, pub_complete, raw_file, api_key, now, store_at_start,
                   src_idx, crawled, articles, rw_idx, rewritten, to_publish,
                   new_store, aborted_at, failed_ids, crawl_log, api_read,
                   harnessVars>>

\* archive_previous(): mkdir or shutil.copy raises; nothing catches it
ArchiveFails ==
    /\ pc = "archive"
    /\ pub_exists
    /\ pc' = "aborted"
    /\ aborted_at' = "archive"
    /\ UNCHANGED <<fileVars, api_key, now, store_at_start, src_idx, crawled,
                   articles, rw_idx, rewritten, to_publish, new_store, failed_ids, crawl_log,
                   api_read, harnessVars>>

\* how crawl_source(source) may end for source k: it raises (a feed that
\* cannot be fetched or parsed), it returns nothing, or it returns the feed
CrawlOutcomes(k) ==
    {[raised |-> TRUE,  found |-> <<>>],
     [raised |-> FALSE, found |-> <<>>],
     [raised |-> FALSE, found |-> Feed(k)]}

\* try: all_articles.extend(crawl_source(source))
\* except Exception: log.error(...)
\* (faulty variant: the exception costs the articles gathered so far)
ExtendOrReset(acc, outcome) ==
    IF outcome.raised THEN <<>> ELSE acc \o outcome.found
Extend(acc, outcome) ==
    IF outcome.raised THEN acc ELSE acc \o outcome.found

\* crawl_all: one turn of "for source in SOURCES"
CrawlSource ==
    /\ pc = "crawl"
    /\ src_idx <= Len(Sources)
    /\ \E outcome \in CrawlOutcomes(src_idx) :
          /\ crawled' = Extend(crawled, outcome)
          /\ crawl_log' = Append(crawl_log, outcome)
    /\ src_idx' = src_idx + 1
    /\ UNCHANGED <<fileVars, pc, api_key, now, store_at_start, articles, rw_idx,
                   rewritten, to_publish, new_store, aborted_at, failed_ids, api_read, harnessVars>>

\* crawl_all: de-duplicate, sort, pick; articles = crawl_all(top_n=n)
SelectArticles ==
    /\ pc = "crawl"
    /\ src_idx > Len(Sources)
    /\ articles' = SelectTop(crawled, ArticlesPerDay)
    /\ pc' = "save_raw"
    /\ UNCHANGED <<fileVars, api_key, now, store_at_start, src_idx, crawled,
                   rw_idx, rewritten, to_publish, new_store, aborted_at, failed_ids, crawl_log,
                   api_read, harnessVars>>

\* save_articles(articles, CONFIG["raw_path"])
SaveArticles ==
    /\ pc = "save_raw"
    /\ raw_file' = articles
    /\ pc' = "rewrite"
    /\ crawl_log' = <<>>
    /\ UNCHANGED <<published, pub_exists, pub_complete, archive, api_key, now,
                   store_at_start, src_idx, crawled, articles, rw_idx, rewritten,
                   to_publish, new_store, aborted_at, failed_ids, api_read, harnessVars>>

\* save_articles: open(path, "w") or json.dump raises (the disk is full, the
\* directory is not writable); nothing catches it, the raw file is left cut
SaveArticlesFails ==
    /\ pc = "save_raw"
    /\ raw_file' = <<>>
    /\ pc' = "aborted"
    /\ aborted_at' = "save_raw"
    /\ crawl_log' = <<>>
    /\ UNCHANGED <<published, pub_exists, pub_complete, archive, api_key, now,
                   store_at_start, src_idx, crawled, articles, rw_idx, rewritten,
                   to_publish, new_store, failed_ids, api_read,
                   harnessVars>>

\* no api key: rewritten = [dict(**a, status="pending") for a in [...]].
\* Every a already has the key "status", so dict() raises TypeError for the
\* first article; only an empty selection gets through.
SkipRewrite ==
    /\ pc = "rewrite"
    /\ ~api_key
    /\ IF articles = <<>>
       THEN /\ rewritten' = <<>>
            /\ pc' = "publish"
            /\ UNCHANGED aborted_at
       ELSE /\ pc' = "aborted"
            /\ aborted_at' = "skip_rewrite"
            /\ UNCHANGED rewritten
    /\ UNCHANGED <<fileVars, api_key, now, store_at_start, src_idx, crawled,
                   articles, rw_idx, to_publish, new_store, failed_ids, crawl_log,
                   api_read, harnessVars>>

\* run_rewriter: load the raw file, build the rewriter, enter rewrite_batch
StartRewriter ==
    /\ pc = "rewrite"
    /\ api_key
    /\ rewritten' = <<>>
    /\ rw_idx' = 1
    /\ pc' = "rewrite_batch"
    /\ UNCHANGED <<fileVars, api_key, now, store_at_start, src_idx, crawled,
                   articles, to_publish, new_store, aborted_at, failed_ids, crawl_log,
                   api_read, harnessVars>>

\* rewrite_batch: one turn of the loop, with the call of rewrite
RewriteNext ==
    /\ pc = "rewrite_batch"
    /\ rw_idx <= Len(raw_file)
    /\ LET article == raw_file[rw_idx]
       IN  IF article.status = "rewritten"
           THEN /\ rewritten' = Append(rewritten, article)
                /\ rw_idx' = rw_idx + 1
                /\ UNCHANGED <<pc, aborted_at, failed_ids>>
           ELSE \E outcome \in RewriteOutcomes :
                   IF outcome = "object"
                   THEN /\ rewritten' = Append(rewritten, [article EXCEPT !.status = "rewritten"])
                        /\ rw_idx' = rw_idx + 1
                        /\ UNCHANGED <<pc, aborted_at, failed_ids>>
                   ELSE IF Caught(outcome)
                   THEN /\ rewritten' = Append(rewritten, [article EXCEPT !.status = "rewrite_failed"])
                        /\ rw_idx' = rw_idx + 1
                        /\ failed_ids' = failed_ids \cup {article.id}
                        /\ UNCHANGED <<pc, aborted_at>>
                   ELSE /\ pc' = "aborted"
                        /\ aborted_at' = RewriteAbort(outcome)
                        /\ UNCHANGED <<rewritten, rw_idx, failed_ids>>
    /\ UNCHANGED <<fileVars, api_key, now, store_at_start, src_idx, crawled,
                   articles, to_publish, new_store, crawl_log,
                   api_read, harnessVars>>

\* rewrite_batch returns; run_rewriter saves the results and returns them
FinishRewriter ==
    /\ pc = "rewrite_batch"
    /\ rw_idx > Len(raw_file)
    /\ pc' = "publish"
    /\ UNCHANGED <<fileVars, api_key, now, store_at_start, src_idx, crawled,
                   articles, rw_idx, rewritten, to_publish, new_store, aborted_at,
                   failed_ids, crawl_log,
                   api_read, harnessVars>>

\* step 4: filter, mark_as_published (in place, so the dicts of `rewritten`
\* change too), merge_with_published
Publish ==
    /\ pc = "publish"
    /\ pub_exists => pub_complete
    /\ LET marked == [i \in DOMAIN rewritten |->
                         IF Eligible(rewritten[i].status)
                         THEN mark_as_published(rewritten[i], now)
                         ELSE rewritten[i]]
           chosen == SelectSeq(marked, LAMBDA a : a.status = "published")
       IN  /\ rewritten' = marked
           /\ to_publish' = chosen
           /\ new_store' = merge_with_published(IF pub_exists THEN published ELSE <<>>,
                                                chosen)
    /\ pc' = "write"
    /\ UNCHANGED <<fileVars, api_key, now, store_at_start, src_idx, crawled,
                   articles, rw_idx, aborted_at, failed_ids, crawl_log,
                   api_read, harnessVars>>

\* merge_with_published: json.load(f) raises on a published file that an
\* earlier, failed write left cut; nothing catches it
MergeFails ==
    /\ pc = "publish"
    /\ pub_exists /\ ~pub_complete
    /\ pc' = "aborted"
    /\ aborted_at' = "merge"
    /\ UNCHANGED <<fileVars, api_key, now, store_at_start, src_idx, crawled,
                   articles, rw_idx, rewritten, to_publish, new_store, failed_ids,
                   crawl_log, api_read, harnessVars>>

\* with open(CONFIG["published_path"], "w") as f: the file is cut to nothing
OpenStore ==
    /\ pc = "write"
    /\ published' = <<>>
    /\ pub_exists' = TRUE
    /\ pub_complete' = FALSE
    /\ pc' = "dump"
    /\ api_read' = NoRead
    /\ UNCHANGED <<archive, raw_file, api_key, now, store_at_start, src_idx,
                   crawled, articles, rw_idx, rewritten, to_publish, new_store,
                   aborted_at, failed_ids, crawl_log, harnessVars>>

\* json.dump(merged, f): the text reaches the file piece by piece; here the
\* first record is in the file and the rest is not
DumpPart ==
    /\ pc = "dump"
    /\ published = <<>>
    /\ new_store # <<>>
    /\ published' = SubSeq(new_store, 1, 1)
    /\ api_read' = NoRead
    /\ UNCHANGED <<pub_exists, pub_complete, archive, raw_file, pc, api_key, now,
                   store_at_start, src_idx, crawled, articles, rw_idx, rewritten,
                   to_publish, new_store, aborted_at, failed_ids, crawl_log, harnessVars>>

\* json.dump(merged, f) is through and the file is closed
WriteStore ==
    /\ pc = "dump"
    /\ published' = new_store
    /\ pub_complete' = TRUE
    /\ pc' = "done"
    /\ api_read' = NoRead
    /\ UNCHANGED <<pub_exists, archive, raw_file, api_key, now, store_at_start,
                   src_idx, crawled, articles, rw_idx, rewritten, to_publish,
                   new_store, aborted_at, failed_ids, crawl_log, harnessVars>>

\* json.dump(merged, f) raises (the disk is full): the file stays cut
WriteFails ==
    /\ pc = "dump"
    /\ pc' = "aborted"
    /\ aborted_at' = "write"
    /\ api_read' = NoRead
    /\ UNCHANGED <<fileVars, api_key, now, store_at_start, src_idx, crawled,
                   articles, rw_idx, rewritten, to_publish, new_store, failed_ids,
                   crawl_log, harnessVars>>

\* api.py: load_published(), called by the query service while the pipeline
\* is at its write of the store or has just ended it.  No file: [].  A whole
\* file: its records.  A cut file: json.load raises JSONDecodeError.  The
\* request is answered before the pipeline takes its next step.
LoadPublished ==
    /\ pc \in {"write", "dump", "done"}
    /\ api_read' =
          IF ~pub_exists THEN [status |-> "ok", content |-> <<>>]
          ELSE IF pub_complete THEN [status |-> "ok", content |-> published]
          ELSE [status |-> "error", content |-> published]
    /\ UNCHANGED <<fileVars, runVars, harnessVars>>

Next ==
    \/ StartRun
    \/ ArchivePrevious
    \/ ArchiveFails
    \/ CrawlSource
    \/ SelectArticles
    \/ SaveArticles
    \/ SaveArticlesFails
    \/ SkipRewrite
    \/ StartRewriter
    \/ RewriteNext
    \/ FinishRewriter
    \/ Publish
    \/ MergeFails
    \/ OpenStore
    \/ DumpPart
    \/ WriteStore
    \/ WriteFails
    \/ LoadPublished

Spec == Init /\ [][Next]_vars

----------------------------------------------------------------------------
(* Properties of run_pipeline (Spec) *)

StampsOf(s, id) == {s[i].published_at_archyards : i \in {k \in DOMAIN s : s[k].id = id}}

\* C5: a candidate whose status is rewrite_failed at the publish step is
\* not in to_publish, and the run does not add its id to the published
\* store, whatever became of the other candidates of the batch.
C5_FailedNeverPublished ==
    pc \in {"write", "done"} =>
        \A id \in failed_ids :
            /\ id \notin IdsOf(to_publish)
            /\ id \notin IdsOf(store_at_start) => id \notin IdsOf(new_store)
            /\ (pc = "done" /\ id \notin IdsOf(store_at_start)) => id \notin IdsOf(published)

\* a run ended in which one new candidate failed to be rewritten and another
\* new candidate was rewritten and stored
C5_Witness ==
    /\ pc = "done"
    /\ \E i, j \in DOMAIN rewritten :
          /\ rewritten[i].status = "rewrite_failed"
          /\ rewritten[i].id \in failed_ids
          /\ rewritten[i].id \notin IdsOf(store_at_start)
          /\ rewritten[j].status = "published"
          /\ rewritten[j].id \in IdsOf(published) \ IdsOf(store_at_start)

\* C6: a record the store held when a run started and still holds when the
\* run has written the store has the published_at_archyards it had before,
\* also when the run crawled its id again and stamped the new copy.
C6_StampKept ==
    pc = "done" =>
        \A i \in DOMAIN store_at_start :
            StampsOf(published, store_at_start[i].id)
                \subseteq {store_at_start[i].published_at_archyards}

\* a run crawled an id the store held, stamped the copy with the time of
\* the run, and the store still shows the older stamp
C6_Witness ==
    /\ pc = "done"
    /\ \E k \in DOMAIN to_publish :
          /\ to_publish[k].id \in IdsOf(store_at_start)
          /\ to_publish[k].published_at_archyards = now
          /\ \E j \in DOMAIN published :
                /\ published[j].id = to_publish[k].id
                /\ published[j].published_at_archyards < now

\* the retention cap and the uniqueness of ids, over the runs of the pipeline
PipelineStoreInvariant ==
    /\ Len(published) <= RetentionCap
    /\ Distinct(published)

\* C9 (as claimed): whatever way a rewrite call fails, the run is not
\* aborted by it: the candidate is marked rewrite_failed and the loop goes on.
C9_RewriteFailureNeverAborts ==
    ~(pc = "aborted" /\ aborted_at \in RewriteAborts)

\* C10 (as claimed): without credentials the run skips the rewrite step and
\* goes on to publish the selection; it is not aborted there.
C10_NoKeyRunPublishes ==
    ~api_key => ~(pc = "aborted" /\ aborted_at = "skip_rewrite")

\* C11 (as claimed): a failure of the archival step does not stop the run:
\* no run is aborted at archive_previous.
C11_ArchiveFailureNeverAborts ==
    ~(pc = "aborted" /\ aborted_at = "archive")

\* the articles of source k among s, in their order
OfSource(s, k) == SelectSeq(s, LAMBDA a : a.source_name = Sources[k])

\* the lists the sources returned, one after the other
RECURSIVE Returned(_, _)
Returned(log, k) ==
    IF k > Len(log) THEN <<>>
    ELSE (IF log[k].raised THEN <<>> ELSE log[k].found) \o Returned(log, k + 1)

\* C12: when crawl_all has returned, every source of SOURCES was crawled,
\* also those behind a source that raised; a source that raised contributes
\* no candidate, every other source contributes all it returned, and the
\* selection is made among exactly those candidates.
C12_RaisingSourceIsolated ==
    pc = "save_raw" =>
        /\ Len(crawl_log) = Len(Sources)
        /\ \A k \in DOMAIN crawl_log :
              IF crawl_log[k].raised
              THEN OfSource(crawled, k) = <<>>
              ELSE OfSource(crawled, k) = crawl_log[k].found
        /\ articles = SelectTop(Returned(crawl_log, 1), ArticlesPerDay)

\* the second source raised, the first and the third returned their feeds,
\* and articles of both are in the selection
C12_Witness ==
    /\ pc = "save_raw"
    /\ Len(crawl_log) = 3
    /\ crawl_log[2].raised
    /\ crawl_log[1].found # <<>>
    /\ crawl_log[3].found # <<>>
    /\ OfSource(articles, 1) # <<>>
    /\ OfSource(articles, 3) # <<>>
    /\ OfSource(articles, 2) = <<>>

\* C13 (as claimed): a load_published that falls anywhere into the
\* pipeline's write of the store returns the whole previous store or the
\* whole new store, never an empty or partly written file.
C13_ReaderSeesWholeStore ==
    \/ api_read.status = "none"
    \/ /\ api_read.status = "ok"
       /\ api_read.content \in {store_at_start, new_store}

\* the steps of run_pipeline ahead of the write of the store
BeforeWrite ==
    {"archive", "crawl", "save_raw", "rewrite", "rewrite_batch", "publish", "write"}

====
